---- MODULE Spec2Model ----
(***************************************************************************)
(* Governance subsystem of the repository: the PreToolUse guard chain      *)
(* (state-transition hook, test-evidence hook, git-hygiene hook, outcome   *)
(* hook), the PostToolUse feature-to-trace hook, and the decision-trace    *)
(* store (init-db.py, store-trace.py, query-traces.py).                    *)
(***************************************************************************)
EXTENDS Integers, Sequences, FiniteSets, TLC

VARIABLES
    stateFile,      \* text of .claude/progress/state.json, or Absent
    featureFile,    \* text of .claude/progress/feature-list.json, or Absent
    evidence,       \* the evidence record: "missing", "unreadable", "passed", "failed"
    tree,           \* what `git status --porcelain` would do in the hook's directory
    ledgerCorrupt,  \* TRUE when the trace ledger cannot be parsed by the outcome hook
    pc,             \* harness position: "idle", "pre", "decided", "post"
    event,          \* the intercepted Write/Edit event being handled
    evaluated,      \* the PreToolUse hooks run for `event`, in order, with results
    postResult,     \* result of the PostToolUse hook for `event`
    priorLedger,    \* the feature ledger as it was when `event` was intercepted
    creds,          \* VOYAGE_API_KEY and the two config files of the trace store
    collection,     \* the Chroma collection "traces" of the project
    clock,          \* datetime.now() as a tick count
    call,           \* the last trace-store call and what it returned
    session         \* the overlapping sessions: what each one's guards read and allowed

vars == <<stateFile, featureFile, evidence, tree, ledgerCorrupt, pc, event,
          evaluated, postResult, priorLedger, creds, collection, clock, call,
          session>>

guardVars == <<stateFile, featureFile, evidence, tree, ledgerCorrupt, pc, event,
               evaluated, postResult, priorLedger>>

storeVars == <<creds, collection, clock, call>>

\* Bounds of the model.
MaxDirtyPaths == 1
MaxTraces == 2
MaxClock == 1
MaxKeyedTraces == 1

(***************************************************************************)
(* Texts.  A file content or a payload is a text; what matters of a text   *)
(* is how json.loads reads it and which substrings it holds:               *)
(*   "object"   a JSON object; `state` is the value of its "state" key     *)
(*              (NoKey when it has none), `features` its "features" list   *)
(*   "fragment" an Edit replacement such as  "state": "TEST"  or           *)
(*              "status": "tested", "tested": true ; not valid JSON        *)
(*   "array"    valid JSON that is not an object                           *)
(*   "garbage"  not valid JSON                                             *)
(*   "empty"    the empty string                                           *)
(*   "absent"   no file (files only)                                       *)
(***************************************************************************)
NoKey == "<no key>"

States == {"START", "INIT", "IMPLEMENT", "TEST", "COMPLETE", "FIX_BROKEN"}

\* A state value that is no key of the table.
OtherState == "REVIEW"

StateValues == States \cup {OtherState}

Features ==
    [id : {"F1"}, title : {"Login"}, status : {"in_progress", "tested"},
     tested : BOOLEAN, last_commit : {""}]
      \cup {[id |-> "", title |-> "Login", status |-> "in_progress", tested |-> FALSE,
             last_commit |-> ""]}

Text(form, state, features) ==
    [form |-> form, state |-> state, features |-> features]

Absent == Text("absent", NoKey, <<>>)
EmptyText == Text("empty", NoKey, <<>>)
ArrayText == Text("array", NoKey, <<>>)
GarbageText == Text("garbage", NoKey, <<>>)

StateObjects == {Text("object", s, <<>>) : s \in StateValues \cup {NoKey}}
StateFragments == {Text("fragment", s, <<>>) : s \in StateValues}
FeatureObjects ==
    {Text("object", NoKey, <<>>)} \cup {Text("object", NoKey, <<f>>) : f \in Features}
FeatureFragments == {Text("fragment", NoKey, <<f>>) : f \in Features}

StatePath == ".claude/progress/state.json"
FeaturePath == ".claude/progress/feature-list.json"
OtherPath == "src/app.py"
Paths == {StatePath, FeaturePath, OtherPath}

\* json.loads / json.load: ok = FALSE is a JSONDecodeError.
json_loads(text) ==
    CASE text.form = "object" ->
           [ok |-> TRUE, dict |-> TRUE, state |-> text.state, features |-> text.features]
      [] text.form = "array" ->
           [ok |-> TRUE, dict |-> FALSE, state |-> NoKey, features |-> <<>>]
      [] OTHER ->
           [ok |-> FALSE, dict |-> FALSE, state |-> NoKey, features |-> <<>>]

\* The literal {} the hooks use for an empty payload.
EmptyDict == [ok |-> TRUE, dict |-> TRUE, state |-> NoKey, features |-> <<>>]

(***************************************************************************)
(* Events handed to the hooks on stdin.                                    *)
(***************************************************************************)
Event(stdin, tool, path, content, new_string) ==
    [stdin |-> stdin, tool_name |-> tool, file_path |-> path,
     content |-> content, new_string |-> new_string]

NoEvent == Event("none", "", OtherPath, EmptyText, EmptyText)

WriteTexts ==
    StateObjects \cup FeatureObjects \cup {ArrayText, GarbageText, EmptyText}
EditTexts ==
    StateObjects \cup FeatureObjects \cup StateFragments \cup FeatureFragments
        \cup {GarbageText}

Events ==
    {Event("object", "Write", p, t, EmptyText) : p \in Paths, t \in WriteTexts}
      \cup {Event("object", "Edit", p, EmptyText, t) : p \in Paths, t \in EditTexts}
      \cup {Event("notjson", "", OtherPath, EmptyText, EmptyText),
            Event("nonobject", "", OtherPath, EmptyText, EmptyText)}

\* Python's  a or b  on strings.
StrOr(a, b) == IF a.form # "empty" THEN a ELSE b

\* "state.json" in file_path / "feature-list.json" in file_path
HasStateJson(path) == path = StatePath
HasFeatureList(path) == path = FeaturePath

Exit(code, why) ==
    [code |-> code, why |-> why, current |-> "", attempted |-> "", valid_next |-> <<>>]

\* A block whose message leaves out the valid next states.
Block_OmitsValidNext(current, attempted, valid_next) ==
    [code |-> 2, why |-> "invalid-transition", current |-> current,
     attempted |-> attempted, valid_next |-> <<>>]

Block(current, attempted, valid_next) ==
    [code |-> 2, why |-> "invalid-transition", current |-> current,
     attempted |-> attempted, valid_next |-> valid_next]

(***************************************************************************)
(* verify-state-transition.py                                              *)
(***************************************************************************)
KeysOfTable == States

\* A table that lets IMPLEMENT skip testing.
VALID_TRANSITIONS_SkipTesting(s) ==
    CASE s = "START" -> <<"INIT", "IMPLEMENT">>
      [] s = "FIX_BROKEN" -> <<"INIT">>
      [] s = "INIT" -> <<"IMPLEMENT">>
      [] s = "IMPLEMENT" -> <<"TEST", "COMPLETE">>
      [] s = "TEST" -> <<"IMPLEMENT", "COMPLETE">>
      [] s = "COMPLETE" -> <<>>

\* A table without START -> IMPLEMENT.
VALID_TRANSITIONS_InitFirst(s) ==
    CASE s = "START" -> <<"INIT">>
      [] s = "FIX_BROKEN" -> <<"INIT">>
      [] s = "INIT" -> <<"IMPLEMENT">>
      [] s = "IMPLEMENT" -> <<"TEST">>
      [] s = "TEST" -> <<"IMPLEMENT", "COMPLETE">>
      [] s = "COMPLETE" -> <<>>

\* A table that lets a COMPLETE project go back to IMPLEMENT.
VALID_TRANSITIONS_ReopensComplete(s) ==
    CASE s = "START" -> <<"INIT", "IMPLEMENT">>
      [] s = "FIX_BROKEN" -> <<"INIT">>
      [] s = "INIT" -> <<"IMPLEMENT">>
      [] s = "IMPLEMENT" -> <<"TEST">>
      [] s = "TEST" -> <<"IMPLEMENT", "COMPLETE">>
      [] s = "COMPLETE" -> <<"IMPLEMENT">>

VALID_TRANSITIONS(s) ==
    CASE s = "START" -> <<"INIT", "IMPLEMENT">>
      [] s = "FIX_BROKEN" -> <<"INIT">>
      [] s = "INIT" -> <<"IMPLEMENT">>
      [] s = "IMPLEMENT" -> <<"TEST">>
      [] s = "TEST" -> <<"IMPLEMENT", "COMPLETE">>
      [] s = "COMPLETE" -> <<>>

\* VALID_TRANSITIONS.get(current_state, [])
ValidNext(s) == IF s \in KeysOfTable THEN VALID_TRANSITIONS(s) ELSE <<>>

Range(seq) == {seq[i] : i \in 1..Len(seq)}

\* Lines 57-63: the current state read from the file at file_path.
\* ok = FALSE is the AttributeError of .get on a value that is no dict.
ReadCurrentState(file) ==
    LET data == json_loads(file)
    IN  IF file.form = "absent" \/ ~data.ok THEN [ok |-> TRUE, state |-> "START"]
        ELSE IF ~data.dict THEN [ok |-> FALSE, state |-> ""]
        ELSE [ok |-> TRUE, state |-> IF data.state = NoKey THEN "START" ELSE data.state]

VerifyStateTransition(e, file) ==
    IF e.stdin = "notjson" THEN Exit(0, "stdin-not-json")
    ELSE IF e.stdin = "nonobject" THEN Exit(1, "AttributeError")
    ELSE IF ~HasStateJson(e.file_path) THEN Exit(0, "not-state-file")
    ELSE
      LET content == StrOr(e.content, e.new_string)
          new_state_data == IF content.form # "empty" THEN json_loads(content) ELSE EmptyDict
      IN  IF ~new_state_data.ok THEN Exit(0, "payload-unparseable")
          ELSE IF ~new_state_data.dict THEN Exit(1, "AttributeError")
          ELSE
            LET new_state == IF new_state_data.state = NoKey THEN "" ELSE new_state_data.state
                cur == ReadCurrentState(file)
            IN  IF ~cur.ok THEN Exit(1, "AttributeError")
                ELSE IF cur.state = new_state THEN Exit(0, "no-change")
                ELSE IF new_state \notin Range(ValidNext(cur.state))
                     THEN Block(cur.state, new_state, ValidNext(cur.state))
                ELSE Exit(0, "valid-transition")

(***************************************************************************)
(* require-commit-before-tested.py                                         *)
(***************************************************************************)
\* What `git status --porcelain` does: git = "ok" with `paths` lines of output,
\* "error" (exit status not 0, nothing on stdout), "missing" (no git binary:
\* FileNotFoundError) or "timeout" (subprocess.TimeoutExpired).
Trees ==
    {[git |-> "ok", paths |-> n] : n \in 0..MaxDirtyPaths}
      \cup {[git |-> g, paths |-> 0] : g \in {"error", "missing", "timeout"}}

has_uncommitted_changes(t) == t.git = "ok" /\ t.paths > 0

\* '"status": "tested"' in content or '"status":"tested"' in content
HasStatusTested(text) ==
    /\ text.form \in {"object", "fragment"}
    /\ \E i \in 1..Len(text.features) : text.features[i].status = "tested"

\* Lines 61-64: what the hook prints when it blocks.
BlockedMessage ==
    <<"BLOCKED: Cannot mark feature as tested with uncommitted changes",
      "",
      "Run: .skills/implementation/scripts/feature-commit.sh <feature-id>",
      "Then retry marking the feature as tested.">>

\* Lines 67-80 print warnings only; the exit status is 0 on every path through them.
RequireCommitBeforeTested(e, t) ==
    IF e.stdin = "notjson" THEN Exit(1, "JSONDecodeError")
    ELSE IF e.stdin = "nonobject" THEN Exit(1, "AttributeError")
    ELSE IF ~HasFeatureList(e.file_path) THEN Exit(0, "not-feature-list")
    ELSE IF ~HasStatusTested(e.content) THEN Exit(0, "not-status-tested")
    ELSE IF has_uncommitted_changes(t) THEN Exit(2, "uncommitted-changes")
    ELSE Exit(0, "clean-tree")

(***************************************************************************)
(* The two hooks the settings name whose scripts are not among the         *)
(* sources: verify-tests.py (EvidenceGuard) and require-outcome-update.py  *)
(* (OutcomeGuard).  Both fire when the payload sets "tested": true.        *)
(***************************************************************************)
SetsTestedTrue(text) ==
    /\ text.form \in {"object", "fragment"}
    /\ \E i \in 1..Len(text.features) : text.features[i].tested

EvidenceStates == {"missing", "unreadable", "passed", "failed"}

VerifyTests(e, ev) ==
    IF e.stdin # "object" THEN Exit(0, "stdin-unparseable")
    ELSE IF ~SetsTestedTrue(StrOr(e.content, e.new_string)) THEN Exit(0, "not-tested-true")
    ELSE IF ev = "missing" THEN Exit(2, "no-evidence")
    ELSE IF ev = "unreadable" THEN Exit(2, "evidence-unreadable")
    ELSE IF ev = "failed" THEN Exit(2, "tests-failed")
    ELSE Exit(0, "evidence-passed")

\* The traces of the ledger whose outcome is pending.
PendingCount(coll) == Cardinality({id \in DOMAIN coll.records : coll.records[id].outcome = "pending"})

RequireOutcomeUpdate(e, coll, corrupt) ==
    IF e.stdin # "object" THEN Exit(0, "stdin-unparseable")
    ELSE IF ~SetsTestedTrue(StrOr(e.content, e.new_string)) THEN Exit(0, "not-tested-true")
    ELSE IF ~coll.exists THEN Exit(0, "no-ledger")
    ELSE IF corrupt THEN Exit(0, "ledger-unparseable")
    ELSE IF PendingCount(coll) > 0
         THEN [Exit(2, "pending-traces") EXCEPT !.attempted = ToString(PendingCount(coll))]
    ELSE Exit(0, "outcomes-resolved")

(***************************************************************************)
(* link-feature-to-trace.py (PostToolUse).  The hook builds the trace      *)
(* entry and prints a note; it stores nothing.                             *)
(***************************************************************************)
\* A hook that answers a payload it cannot parse with a block.
LinkFeatureToTrace_Vetoes(e) ==
    IF e.stdin # "object" \/ ~HasFeatureList(e.file_path) THEN Exit(0, "not-feature-list")
    ELSE IF StrOr(e.content, e.new_string).form \in {"fragment", "garbage"}
         THEN Exit(2, "payload-unparseable")
    ELSE Exit(0, "no-features")

LinkFeatureToTrace(e) ==
    IF e.stdin = "notjson" THEN Exit(0, "stdin-not-json")
    ELSE IF e.stdin = "nonobject" THEN Exit(1, "AttributeError")
    ELSE IF ~HasFeatureList(e.file_path) THEN Exit(0, "not-feature-list")
    ELSE
      LET content == StrOr(e.content, e.new_string)
          new_data == IF content.form # "empty" THEN json_loads(content) ELSE EmptyDict
      IN  IF ~new_data.ok THEN Exit(0, "payload-unparseable")
          ELSE IF ~new_data.dict THEN Exit(1, "AttributeError")
          ELSE IF new_data.features = <<>> THEN Exit(0, "no-features")
          ELSE LET latest_feature == new_data.features[Len(new_data.features)]
               IN  IF latest_feature.id = "" THEN Exit(0, "no-feature-id")
                   ELSE [Exit(0, "would-create-trace") EXCEPT
                            !.attempted = latest_feature.title]

(***************************************************************************)
(* The Chroma collection "traces".  metadata is the embedding_dim the      *)
(* collection was created with (NoMetadata when created without), dim the  *)
(* dimensionality Chroma fixed with the first vector added (0: none yet),  *)
(* records the stored traces by id.  An embedding is kept as its length    *)
(* and its place on a line, the squared difference of two places being     *)
(* the L2 distance Chroma reports.                                         *)
(***************************************************************************)
NoMetadata == 0

EMBEDDING_DIM == 1024

Embedding(len, at) == [len |-> len, at |-> at]

Trace(timestamp, category, decision, outcome, embedding, st) ==
    [timestamp |-> timestamp, category |-> category, decision |-> decision,
     outcome |-> outcome, embedding |-> embedding, state |-> st]

NoRecords == [id \in {} |-> Trace(0, "", "", "", Embedding(0, 0), "")]

NoCollection == [exists |-> FALSE, metadata |-> NoMetadata, dim |-> 0, records |-> NoRecords]

\* Ledgers the guards may find: none, empty, and with pending and resolved traces.
SampleTrace(outcome) ==
    Trace(0, "feature", "Feature created: Login", outcome, Embedding(EMBEDDING_DIM, 0), "unknown")

SampleLedgers ==
    {NoCollection,
     [exists |-> TRUE, metadata |-> EMBEDDING_DIM, dim |-> EMBEDDING_DIM,
      records |-> [id \in {1} |-> SampleTrace("pending")]],
     [exists |-> TRUE, metadata |-> EMBEDDING_DIM, dim |-> EMBEDDING_DIM,
      records |-> [id \in {1} |-> SampleTrace("success")]],
     [exists |-> TRUE, metadata |-> EMBEDDING_DIM, dim |-> EMBEDDING_DIM,
      records |-> [id \in {1, 2} |-> SampleTrace(IF id = 1 THEN "pending" ELSE "success")]]}

(***************************************************************************)
(* store-trace.py, query-traces.py, init-db.py                             *)
(***************************************************************************)
Decisions == {"Chose retry backoff of 200ms", "Feature created: Login"}
Outcomes == {"pending", "success", "failure"}

\* The length voyage-3-lite returns, the model the source names as the other
\* choice: half of voyage-3's.
LiteDim == EMBEDDING_DIM \div 2

\* Where the provider puts a text: a document at Place, the query for the
\* same text one step from it (input_type "document" and "query" give
\* different vectors of one space).
Place(text) ==
    CASE text = "Chose retry backoff of 200ms" -> 0
      [] text = "Feature created: Login" -> 45

At(text, input_type) == IF input_type = "query" THEN Place(text) + 1 ELSE Place(text)

Failure == Embedding(0, 0)

\* What vo.embed may do for a text: raise, or return a vector.
ProviderResponses(text, input_type) ==
    {Failure} \cup {Embedding(len, At(text, input_type)) : len \in {EMBEDDING_DIM, LiteDim}}

\* The three places a key may be in; "" is an unset or empty variable, a missing
\* file or a file without the key; Malformed is a config file json.load cannot read.
Malformed == "<malformed>"

Credentials(env, project, global) == [env |-> env, project |-> project, global |-> global]

NoCredentials == Credentials("", "", "")

\* get_voyage_key: key = "" is None; ok = FALSE is the exception json.load raises
\* on a config file that is there and is not JSON.
get_voyage_key(cred) ==
    IF cred.env # "" THEN [ok |-> TRUE, key |-> cred.env]
    ELSE IF cred.project = Malformed THEN [ok |-> FALSE, key |-> ""]
    ELSE IF cred.project # "" THEN [ok |-> TRUE, key |-> cred.project]
    ELSE IF cred.global = Malformed THEN [ok |-> FALSE, key |-> ""]
    ELSE IF cred.global # "" THEN [ok |-> TRUE, key |-> cred.global]
    ELSE [ok |-> TRUE, key |-> ""]

\* A get_embedding that goes on after a failed request with what it has.
get_embedding_SwallowsError(response) == [ok |-> TRUE, embedding |-> response]

\* get_embedding and get_query_embedding: ok = FALSE is sys.exit(1).
get_embedding(response) == [ok |-> response # Failure, embedding |-> response]

get_query_embedding(response) == [ok |-> response # Failure, embedding |-> response]

\* sha256 of timestamp and decision, cut to 12 hex digits: one id for each
\* pair of timestamp and text.
DecisionNumber(text) == IF text = "Chose retry backoff of 200ms" THEN 1 ELSE 2

trace_id(timestamp, decision) == 10 * timestamp + DecisionNumber(decision)

\* get_state_context: ok = FALSE is the exception json.load or .get raises.
get_state_context(file) ==
    IF file.form = "absent" THEN [ok |-> TRUE, state |-> "unknown"]
    ELSE IF file.form # "object" THEN [ok |-> FALSE, state |-> "unknown"]
    ELSE [ok |-> TRUE, state |-> IF file.state = NoKey THEN "unknown" ELSE file.state]

\* client.get_or_create_collection(name="traces")
get_chroma_client(coll) ==
    IF coll.exists THEN coll
    ELSE [exists |-> TRUE, metadata |-> NoMetadata, dim |-> 0, records |-> NoRecords]

\* A collection.add that overwrites the record of an id it already holds.
collection_upsert(coll, id, trace) ==
    IF coll.dim # 0 /\ trace.embedding.len # coll.dim THEN [ok |-> FALSE, coll |-> coll]
    ELSE [ok |-> TRUE,
          coll |-> [coll EXCEPT
                      !.dim = trace.embedding.len,
                      !.records = [i \in DOMAIN coll.records \cup {id} |->
                                     IF i = id THEN trace ELSE coll.records[i]]]]

\* collection.add: Chroma fixes the dimensionality with the first vector and
\* raises on a vector of another length; an id the collection holds already
\* is left as it is.
collection_add(coll, id, trace) ==
    IF coll.dim # 0 /\ trace.embedding.len # coll.dim THEN [ok |-> FALSE, coll |-> coll]
    ELSE IF id \in DOMAIN coll.records THEN [ok |-> TRUE, coll |-> coll]
    ELSE [ok |-> TRUE,
          coll |-> [coll EXCEPT
                      !.dim = trace.embedding.len,
                      !.records = [i \in DOMAIN coll.records \cup {id} |->
                                     IF i = id THEN trace ELSE coll.records[i]]]]

\* No --category, no --outcome.
NoFilter == ""

Where(category, outcome) == [category |-> category, outcome |-> outcome]

\* A call and what came of it; `where` is the filter of a query.
Call(op, exit, id, text, k, results, requests, key, answer) ==
    [op |-> op, exit |-> exit, id |-> id, text |-> text, k |-> k, results |-> results,
     requests |-> requests, key |-> key, answer |-> answer,
     where |-> Where(NoFilter, NoFilter)]

NoCall == Call("none", 0, 0, "", 0, <<>>, 0, "", "none")

\* What the provider did with the request of a call: "error" when vo.embed raised.
Answer(response) == IF response = Failure THEN "error" ELSE "vector"

\* store_trace(decision, category, outcome): `tick` says whether the clock has
\* moved on since the last call.
store_trace(decision, category, outcome, response, tick) ==
    LET api_key == get_voyage_key(creds)
        timestamp == clock + tick
        id == trace_id(timestamp, decision)
        context == get_state_context(stateFile)
        got == get_embedding(response)
        created == get_chroma_client(collection)
        trace == Trace(timestamp, category, decision, outcome, got.embedding, context.state)
        added == collection_add(created, id, trace)
    IN  /\ timestamp <= MaxClock
        /\ Cardinality(DOMAIN collection.records) < MaxTraces
        /\ IF ~api_key.ok \/ api_key.key = ""
           THEN /\ call' = Call("store", 1, 0, decision, 0, <<>>, 0, "", "none")
                /\ UNCHANGED <<collection, clock>>
           ELSE IF ~context.ok
           THEN /\ call' = Call("store", 1, 0, decision, 0, <<>>, 0, api_key.key, "none")
                /\ clock' = timestamp
                /\ UNCHANGED collection
           ELSE IF ~got.ok
           THEN /\ call' = Call("store", 1, 0, decision, 0, <<>>, 1, api_key.key,
                                Answer(response))
                /\ clock' = timestamp
                /\ UNCHANGED collection
           ELSE /\ call' = Call("store", IF added.ok THEN 0 ELSE 1,
                                IF added.ok THEN id ELSE 0, decision, 0, <<>>, 1,
                                api_key.key, Answer(response))
                /\ clock' = timestamp
                /\ collection' = added.coll
        /\ UNCHANGED creds
        /\ UNCHANGED <<guardVars, session>>

\* The L2 distance Chroma reports between two vectors.
Distance(a, b) == (a.at - b.at) * (a.at - b.at)

\* round(1 / (1 + distance), 3), in thousandths.  Python rounds the double:
\* up from the half, except at 1/16, which a double holds exactly and which
\* goes to the even digit.
\* A conversion that cuts the digits after the third instead of rounding.
Similarity_Truncates(distance) == 1000 \div (1 + distance)

Similarity(distance) ==
    LET n == 1 + distance
        q == 1000 \div n
        r == 1000 % n
    IN  IF n = 16 THEN 62 ELSE IF 2 * r >= n THEN q + 1 ELSE q

DEFAULT_LIMIT == 5

\* The records a where clause lets through.
Matching(coll, category, outcome) ==
    {id \in DOMAIN coll.records :
        /\ category # NoFilter => coll.records[id].category = category
        /\ outcome # NoFilter => coll.records[id].outcome = outcome}

Min(a, b) == IF a <= b THEN a ELSE b

\* collection.query: the n_results nearest of the matching records, nearest
\* first; which of two records at one distance comes first is Chroma's choice.
Nearest(coll, q, ids, n_results) ==
    LET n == Min(n_results, Cardinality(ids))
        d(id) == Distance(q, coll.records[id].embedding)
    IN  {r \in [1..n -> ids] :
            /\ \A i, j \in 1..n : i < j => r[i] # r[j] /\ d(r[i]) <= d(r[j])
            /\ \A id \in ids : (\A i \in 1..n : r[i] # id) =>
                  \A i \in 1..n : d(r[i]) <= d(id)}

Result(coll, q, rank, id) ==
    [rank |-> rank, id |-> id,
     similarity |-> Similarity(Distance(q, coll.records[id].embedding)),
     category |-> coll.records[id].category,
     decision |-> coll.records[id].decision,
     outcome |-> coll.records[id].outcome]

\* An output loop that starts at the second match.
Output_SkipsFirst(coll, q, ranked) ==
    [i \in 1..(Len(ranked) - 1) |-> Result(coll, q, i, ranked[i + 1])]

\* Lines 117-137: one result per match.
Output(coll, q, ranked) ==
    [i \in 1..Len(ranked) |-> Result(coll, q, i, ranked[i])]

\* The where clause holds both filters as two keys of one dict: a chromadb that
\* wants exactly one operator in a where clause raises ValueError on it, one
\* that reads the keys as a conjunction answers; nothing catches the error.
TwoKeys(category, outcome) == category # NoFilter /\ outcome # NoFilter

query_traces(query, limit, category, outcome, response) ==
    LET api_key == get_voyage_key(creds)
        got == get_query_embedding(response)
        created == get_chroma_client(collection)
        ids == Matching(created, category, outcome)
        asked(c) == [c EXCEPT !.where = Where(category, outcome)]
    IN  /\ IF ~api_key.ok \/ api_key.key = ""
           THEN /\ call' = asked(Call("query", 1, 0, query, limit, <<>>, 0, "", "none"))
                /\ UNCHANGED collection
           ELSE IF ~got.ok
           THEN /\ call' = asked(Call("query", 1, 0, query, limit, <<>>, 1, api_key.key,
                                      Answer(response)))
                /\ UNCHANGED collection
           ELSE /\ collection' = created
                /\ IF created.dim # 0 /\ got.embedding.len # created.dim
                   THEN call' = asked(Call("query", 1, 0, query, limit, <<>>, 1,
                                           api_key.key, Answer(response)))
                   ELSE \/ /\ TwoKeys(category, outcome)
                           /\ call' = asked(Call("query", 1, 0, query, limit, <<>>, 1,
                                                 api_key.key, Answer(response)))
                        \/ \E ranked \in Nearest(created, got.embedding, ids, limit) :
                              call' = asked(Call("query", 0, 0, query, limit,
                                                 Output(created, got.embedding, ranked), 1,
                                                 api_key.key, Answer(response)))
        /\ UNCHANGED <<creds, clock>>
        /\ UNCHANGED <<guardVars, session>>

\* init_database: get_or_create_collection(name="traces", metadata={"embedding_dim": ...}).
\* On a collection that exists, Chroma 0.4 to 0.6 replaces its metadata by the
\* metadata given, Chroma 1.x leaves it: `replaces` is the library's choice.
init_database(replaces) ==
    /\ collection' =
          IF ~collection.exists
          THEN [exists |-> TRUE, metadata |-> EMBEDDING_DIM, dim |-> 0, records |-> NoRecords]
          ELSE IF replaces THEN [collection EXCEPT !.metadata = EMBEDDING_DIM]
          ELSE collection
    /\ call' = Call("init", 0, 0, "", 0, <<>>, 0, "", "none")
    /\ UNCHANGED <<creds, clock>>
    /\ UNCHANGED <<guardVars, session>>

\* The outcome-update operation: a pending trace is resolved.
update_outcome(id, outcome) ==
    /\ collection.exists
    /\ id \in DOMAIN collection.records
    /\ collection.records[id].outcome = "pending"
    /\ outcome \in {"success", "failure"}
    /\ collection' = [collection EXCEPT !.records[id].outcome = outcome]
    /\ call' = Call("update", 0, id, "", 0, <<>>, 0, "", "none")
    /\ UNCHANGED <<creds, clock>>
    /\ UNCHANGED <<guardVars, session>>

(***************************************************************************)
(* The hook settings and the harness that runs them.                       *)
(***************************************************************************)
\* The global chain with the outcome hook ahead of the git-hygiene hook.
GLOBAL_HOOKS_CONFIG_OutcomeFirst ==
    <<"verify-state-transition.py", "require-outcome-update.py",
      "require-commit-before-tested.py">>

\* The global chain without the outcome hook.
GLOBAL_HOOKS_CONFIG_NoOutcomeHook ==
    <<"verify-state-transition.py", "require-commit-before-tested.py">>

\* configure-settings.py: the PreToolUse hooks of matcher Write|Edit, in order.
GLOBAL_HOOKS_CONFIG ==
    <<"verify-state-transition.py", "require-commit-before-tested.py",
      "require-outcome-update.py">>

\* configure-project-settings.py: the project's PreToolUse hooks of matcher
\* Write|Edit.  verify-files-exist.py, verify-health.py and require-dependencies.py
\* follow verify-tests.py; they never act on the state record or the feature ledger.
project_hooks == <<"verify-tests.py">>

\* The order the orchestrator runs the guards in: evidence, then the global chain.
PreToolUseChain == project_hooks \o GLOBAL_HOOKS_CONFIG

\* One hook process, run on the event against the files as they are now.
RunHook(h, e) ==
    CASE h = "verify-tests.py" -> VerifyTests(e, evidence)
      [] h = "verify-state-transition.py" -> VerifyStateTransition(e, stateFile)
      [] h = "require-commit-before-tested.py" -> RequireCommitBeforeTested(e, tree)
      [] h = "require-outcome-update.py" -> RequireOutcomeUpdate(e, collection, ledgerCorrupt)

Codes(ev) == {ev[i].result.code : i \in 1..Len(ev)}

\* The verdict of the chain: block if a hook blocked, else advisory if one failed.
Verdict(ev) == IF 2 \in Codes(ev) THEN 2 ELSE IF 1 \in Codes(ev) THEN 1 ELSE 0

NoResult == Exit(0, "none")

\* The harness takes a Write/Edit in hand.
Intercept(e) ==
    /\ pc = "idle"
    /\ pc' = "pre"
    /\ event' = e
    /\ evaluated' = <<>>
    /\ postResult' = NoResult
    /\ priorLedger' = featureFile
    /\ UNCHANGED <<stateFile, featureFile, evidence, tree, ledgerCorrupt>>
    /\ UNCHANGED <<storeVars, session>>

\* The harness runs the next hook of the chain; a block ends the chain.
PreToolUse(h) ==
    /\ pc = "pre"
    /\ Len(evaluated) < Len(PreToolUseChain)
    /\ h = PreToolUseChain[Len(evaluated) + 1]
    /\ LET r == RunHook(h, event)
       IN  /\ evaluated' = Append(evaluated, [hook |-> h, result |-> r])
           /\ pc' = IF r.code = 2 \/ Len(evaluated) + 1 = Len(PreToolUseChain)
                    THEN "decided" ELSE "pre"
    /\ UNCHANGED <<stateFile, featureFile, evidence, tree, ledgerCorrupt, event, postResult,
                   priorLedger>>
    /\ UNCHANGED <<storeVars, session>>

RunVerifyTests == PreToolUse("verify-tests.py")
RunVerifyStateTransition == PreToolUse("verify-state-transition.py")
RunRequireCommitBeforeTested == PreToolUse("require-commit-before-tested.py")
RunRequireOutcomeUpdate == PreToolUse("require-outcome-update.py")

\* What the Write or Edit tool makes of a file.  Write replaces the text.  Edit
\* replaces old_string by new_string: a fragment replaces the member of that
\* name in an object, any other new_string replaces the whole text; an Edit
\* whose old_string is not in the file fails and changes nothing.
Written(file, e) ==
    IF e.stdin # "object" THEN file
    ELSE IF e.tool_name = "Write" THEN e.content
    ELSE IF file.form = "absent" THEN file
    ELSE IF e.new_string.form # "fragment" THEN e.new_string
    ELSE IF file.form # "object" THEN file
    ELSE IF e.new_string.state # NoKey
         THEN IF file.state # NoKey THEN [file EXCEPT !.state = e.new_string.state] ELSE file
    ELSE IF file.features # <<>> THEN [file EXCEPT !.features = e.new_string.features]
    ELSE file

\* The tool runs: the chain did not block.
ApplyWrite ==
    /\ pc = "decided"
    /\ Verdict(evaluated) # 2
    /\ pc' = "post"
    /\ stateFile' = IF event.file_path = StatePath THEN Written(stateFile, event) ELSE stateFile
    /\ featureFile' = IF event.file_path = FeaturePath THEN Written(featureFile, event)
                      ELSE featureFile
    /\ UNCHANGED <<evidence, tree, ledgerCorrupt, event, evaluated, postResult, priorLedger>>
    /\ UNCHANGED <<storeVars, session>>

\* The chain blocked: the tool does not run.
Reject ==
    /\ pc = "decided"
    /\ Verdict(evaluated) = 2
    /\ pc' = "idle"
    /\ UNCHANGED <<stateFile, featureFile, evidence, tree, ledgerCorrupt, event, evaluated,
                   postResult, priorLedger>>
    /\ UNCHANGED <<storeVars, session>>

\* A PostToolUse hook that stores the trace it builds.
RunLinkFeatureToTrace_StoresTrace ==
    /\ pc = "post"
    /\ pc' = "idle"
    /\ postResult' = LinkFeatureToTrace(event)
    /\ collection' =
          IF LinkFeatureToTrace(event).why = "would-create-trace"
          THEN [exists |-> TRUE, metadata |-> NoMetadata, dim |-> EMBEDDING_DIM,
                records |-> [id \in DOMAIN collection.records \cup {0} |->
                               IF id = 0 THEN SampleTrace("pending")
                               ELSE collection.records[id]]]
          ELSE collection
    /\ UNCHANGED <<stateFile, featureFile, evidence, tree, ledgerCorrupt, event, evaluated,
                   priorLedger, creds, clock, call, session>>

\* PostToolUse: link-feature-to-trace.py runs after the tool.
RunLinkFeatureToTrace ==
    /\ pc = "post"
    /\ pc' = "idle"
    /\ postResult' = LinkFeatureToTrace(event)
    /\ UNCHANGED <<stateFile, featureFile, evidence, tree, ledgerCorrupt, event, evaluated,
                   priorLedger>>
    /\ UNCHANGED <<storeVars, session>>

\* The sessions that work on the project at once.
Sessions == {"first", "second"}

\* A session of its own: its guards have yet to run (pc "idle") or have allowed
\* its event (pc "allowed"); `read` is the state record its guards read,
\* `replaced` the record its tool call overwrote.
Session(at, e, read, verdict, wrote, replaced) ==
    [pc |-> at, event |-> e, read |-> read, verdict |-> verdict, wrote |-> wrote,
     replaced |-> replaced]

NoSessions == [s \in Sessions |-> Session("idle", NoEvent, Absent, 0, FALSE, Absent)]

\* The hooks of the chain run as processes of the session, each on the files as
\* they are; none holds a lock or writes, so whether the chain blocks is
\* whether one of them exits 2 on the event.
ChainResults(e) ==
    [i \in 1..Len(PreToolUseChain) |->
        [hook |-> PreToolUseChain[i], result |-> RunHook(PreToolUseChain[i], e)]]

\* A session's harness runs the PreToolUse chain on its event.
GuardsDecide(s, e) ==
    /\ session[s].pc = "idle"
    /\ session' = [session EXCEPT ![s] =
                      Session(IF Verdict(ChainResults(e)) = 2 THEN "idle" ELSE "allowed",
                              e, stateFile, Verdict(ChainResults(e)), FALSE, Absent)]
    /\ UNCHANGED <<guardVars, storeVars>>

\* The session's tool call, which its chain did not block, writes the file.
ToolWrites(s) ==
    /\ session[s].pc = "allowed"
    /\ stateFile' = IF session[s].event.file_path = StatePath
                    THEN Written(stateFile, session[s].event) ELSE stateFile
    /\ session' = [session EXCEPT ![s].pc = "idle", ![s].wrote = TRUE,
                                  ![s].replaced = stateFile]
    /\ UNCHANGED <<featureFile, evidence, tree, ledgerCorrupt, pc, event, evaluated,
                   postResult, priorLedger>>
    /\ UNCHANGED storeVars

StateFiles == {Absent, ArrayText, GarbageText} \cup StateObjects

\* The events of the two kinds of run: on the state record, on the feature ledger.
OnPath(p) == {e \in Events : e.stdin = "object" /\ e.file_path = p}

StateEvents ==
    OnPath(StatePath) \cup {e \in Events : e.stdin # "object"}
      \cup {Event("object", "Write", OtherPath, GarbageText, EmptyText)}

TestedEvents ==
    OnPath(FeaturePath) \cup {e \in Events : e.stdin # "object"}

Handle ==
    \/ RunVerifyTests
    \/ RunVerifyStateTransition
    \/ RunRequireCommitBeforeTested
    \/ RunRequireOutcomeUpdate
    \/ ApplyWrite
    \/ Reject
    \/ RunLinkFeatureToTrace

\* Writes and edits of the state record, whatever the record and the evidence are.
InitState ==
    /\ stateFile \in StateFiles
    /\ featureFile = Absent
    /\ evidence \in EvidenceStates
    /\ tree = [git |-> "ok", paths |-> 0]
    /\ collection = NoCollection
    /\ ledgerCorrupt = FALSE
    /\ pc = "idle"
    /\ event = NoEvent
    /\ evaluated = <<>>
    /\ postResult = NoResult
    /\ priorLedger = Absent
    /\ creds = NoCredentials
    /\ clock = 0
    /\ call = NoCall
    /\ session = NoSessions

NextState ==
    \/ \E e \in StateEvents : Intercept(e)
    \/ Handle

SpecState == InitState /\ [][NextState]_vars

\* The same writes and edits on a project whose state record does not exist yet.
InitFresh == InitState /\ stateFile = Absent

SpecFresh == InitFresh /\ [][NextState]_vars

\* Writes and edits of the feature ledger, whatever the evidence, the working
\* tree and the trace ledger are.
InitTested ==
    /\ stateFile = Absent
    /\ featureFile = Absent
    /\ evidence \in EvidenceStates
    /\ tree \in Trees
    /\ collection \in SampleLedgers
    /\ ledgerCorrupt \in {b \in BOOLEAN : b => collection.exists}
    /\ pc = "idle"
    /\ event = NoEvent
    /\ evaluated = <<>>
    /\ postResult = NoResult
    /\ priorLedger = Absent
    /\ creds = NoCredentials
    /\ clock = 0
    /\ call = NoCall
    /\ session = NoSessions

NextTested ==
    \/ \E e \in TestedEvents : Intercept(e)
    \/ Handle

SpecTested == InitTested /\ [][NextTested]_vars

\* The ways the key may be found or not.
KeyedCredentials == Credentials("k-env", "k-project", "k-global")

CredentialCases ==
    {NoCredentials,
     KeyedCredentials,
     Credentials("", "k-project", "k-global"),
     Credentials("", "", "k-global"),
     Credentials("", Malformed, "k-global"),
     Credentials("", "", Malformed)}

\* The trace store on its own: Init, Store, Query and outcome updates from the
\* command line, with the default category, without a key and with one.
StoreStart(cases) ==
    /\ stateFile = Absent
    /\ featureFile = Absent
    /\ evidence = "passed"
    /\ tree = [git |-> "ok", paths |-> 0]
    /\ collection = NoCollection
    /\ ledgerCorrupt = FALSE
    /\ pc = "idle"
    /\ event = NoEvent
    /\ evaluated = <<>>
    /\ postResult = NoResult
    /\ priorLedger = Absent
    /\ creds \in cases
    /\ clock = 0
    /\ call = NoCall
    /\ session = NoSessions

InitStore == StoreStart({NoCredentials, KeyedCredentials})

\* What the provider may answer to a call made with these credentials: without
\* a key no request is made.
Answers(cred, text, input_type) ==
    IF ~get_voyage_key(cred).ok \/ get_voyage_key(cred).key = "" THEN {Failure}
    ELSE ProviderResponses(text, input_type)

\* store-trace.py, query-traces.py and init-db.py run from the command line, and
\* an outcome update.
StoreCall ==
    \E decision \in Decisions, outcome \in Outcomes, tick \in {0, 1} :
       \E response \in Answers(creds, decision, "document") :
          store_trace(decision, "general", outcome, response, tick)

QueryCall ==
    \E query \in Decisions, limit \in {1, DEFAULT_LIMIT} :
       \E response \in Answers(creds, query, "query") :
          query_traces(query, limit, NoFilter, NoFilter, response)

InitCall == \E replaces \in BOOLEAN : init_database(replaces)

UpdateCall ==
    \E id \in DOMAIN collection.records, outcome \in Outcomes : update_outcome(id, outcome)

NextStore ==
    \/ StoreCall
    \/ QueryCall
    \/ InitCall
    \/ UpdateCall

SpecStore == InitStore /\ [][NextStore]_vars

\* The same calls under every way the key may be found or not, on a collection
\* of at most MaxKeyedTraces traces.
InitKeys == StoreStart(CredentialCases)

FewTraces == Cardinality(DOMAIN collection.records) <= MaxKeyedTraces

NextKeys ==
    \/ StoreCall /\ FewTraces'
    \/ QueryCall /\ FewTraces'
    \/ InitCall /\ FewTraces'
    \/ UpdateCall /\ FewTraces'

SpecKeys == InitKeys /\ [][NextKeys]_vars

\* Sessions that overlap on one project: each writes whole state records of the
\* six states, whatever the record and the evidence are at the start.
LifecycleRecords == {Text("object", s, <<>>) : s \in States}

SessionEvents == {Event("object", "Write", StatePath, t, EmptyText) : t \in LifecycleRecords}

InitRace ==
    /\ stateFile \in LifecycleRecords
    /\ featureFile = Absent
    /\ evidence \in EvidenceStates
    /\ tree = [git |-> "ok", paths |-> 0]
    /\ collection = NoCollection
    /\ ledgerCorrupt = FALSE
    /\ pc = "idle"
    /\ event = NoEvent
    /\ evaluated = <<>>
    /\ postResult = NoResult
    /\ priorLedger = Absent
    /\ creds = NoCredentials
    /\ clock = 0
    /\ call = NoCall
    /\ session = NoSessions

NextRace ==
    \/ \E s \in Sessions, e \in SessionEvents : GuardsDecide(s, e)
    \/ \E s \in Sessions : ToolWrites(s)

SpecRace == InitRace /\ [][NextRace]_vars

\* Queries with --category and --outcome, with a key: the filters tried are
\* none, an outcome, a category with an outcome, and a category that no stored
\* trace has.
InitQuery == StoreStart({KeyedCredentials})

Filters ==
    {Where(NoFilter, NoFilter), Where(NoFilter, "pending"), Where("general", "pending"),
     Where("design", NoFilter)}

StoreForQuery ==
    \E decision \in Decisions, outcome \in {"pending", "success"}, tick \in {0, 1} :
       \E response \in Answers(creds, decision, "document") :
          store_trace(decision, "general", outcome, response, tick)

FilteredQuery ==
    \E query \in Decisions, limit \in {1, DEFAULT_LIMIT}, where \in Filters :
       \E response \in Answers(creds, query, "query") :
          query_traces(query, limit, where.category, where.outcome, response)

NextQuery ==
    \/ StoreForQuery
    \/ FilteredQuery

SpecQuery == InitQuery /\ [][NextQuery]_vars

(***************************************************************************)
(* Properties of the state guard.                                          *)
(***************************************************************************)
\* The TransitionTable of the specification, section 3.
TransitionTable(s) ==
    CASE s = "START" -> {"INIT", "IMPLEMENT"}
      [] s = "FIX_BROKEN" -> {"INIT"}
      [] s = "INIT" -> {"IMPLEMENT"}
      [] s = "IMPLEMENT" -> {"TEST"}
      [] s = "TEST" -> {"IMPLEMENT", "COMPLETE"}
      [] s = "COMPLETE" -> {}
      [] OTHER -> {}

StateHook == "verify-state-transition.py"

HookRan(h) == \E i \in 1..Len(evaluated) : evaluated[i].hook = h

ResultOf(h) == evaluated[CHOOSE i \in 1..Len(evaluated) : evaluated[i].hook = h].result

\* The files are as the hooks saw them: the tool has not run yet.
Checking == pc \in {"pre", "decided"}

Payload(e) == StrOr(e.content, e.new_string)

\* The event in hand writes {"state": attempted} to the state record, which
\* holds {"state": current}.
StateWrite(current, attempted) ==
    /\ Checking
    /\ HookRan(StateHook)
    /\ event.stdin = "object"
    /\ event.file_path = StatePath
    /\ Payload(event) = Text("object", attempted, <<>>)
    /\ stateFile = Text("object", current, <<>>)

\* C1: a write of {"state": attempted} with attempted # current and attempted not
\* in TransitionTable[current] is blocked by the state guard (verdict 2), for
\* every current state of the six.
C1_IllegalTransitionBlocked ==
    \A current \in States : \A attempted \in StateValues :
        (/\ StateWrite(current, attempted)
         /\ attempted # current
         /\ attempted \notin TransitionTable(current))
        => /\ ResultOf(StateHook).code = 2
           /\ Verdict(evaluated) = 2

C1_Witness ==
    /\ pc = "decided"
    /\ StateWrite("IMPLEMENT", "COMPLETE")
    /\ ResultOf(StateHook).code = 2

HoldsState(file) == file.form = "object" /\ file.state # NoKey

\* C3: every change of the state the record holds, from s to t with t # s,
\* satisfies t in TransitionTable[s].
C3_OnlyValidatedChanges ==
    [][(HoldsState(stateFile) /\ HoldsState(stateFile') /\ stateFile'.state # stateFile.state)
         => stateFile'.state \in TransitionTable(stateFile.state)]_vars

\* C10: an event on the state record whose payload is not parseable as a JSON
\* object gets verdict 0 from the state guard, whatever the current state is.
NotAJsonObject(text) == text.form \in {"fragment", "garbage", "array"}

C10_FailOpenOnUnparseablePayload ==
    (/\ Checking
     /\ HookRan(StateHook)
     /\ event.stdin = "object"
     /\ event.file_path = StatePath
     /\ NotAJsonObject(Payload(event)))
    => ResultOf(StateHook).code = 0

\* A payload with nothing to govern: a JSON object without a state key that
\* sets no tested: true, or the empty payload.
NothingToGovern(text) ==
    /\ text.form \in {"object", "empty"}
    /\ text.state = NoKey
    /\ ~SetsTestedTrue(text)

\* C11: an event whose payload neither contains a state field nor sets
\* tested: true is allowed (verdict 0), whatever file it targets, the state
\* record included, and whatever the current state is.
C11_NothingToGovernAllowed ==
    (/\ pc = "decided"
     /\ event.stdin = "object"
     /\ NothingToGovern(Payload(event)))
    => Verdict(evaluated) = 0

\* A state record the guard cannot read a state from.
UnreadableRecord(file) ==
    \/ file.form \in {"absent", "garbage", "array", "empty"}
    \/ file.form = "object" /\ file.state = NoKey

\* C12: with a state record that is absent, is not JSON, is JSON but no object,
\* or is an object without a state key, the state guard's verdict for every
\* attempted state is its verdict with the record {"state": "START"}.
C12_UnreadableRecordIsSTART ==
    \A attempted \in StateValues :
        (/\ Checking
         /\ HookRan(StateHook)
         /\ event.stdin = "object"
         /\ event.file_path = StatePath
         /\ Payload(event) = Text("object", attempted, <<>>)
         /\ UnreadableRecord(stateFile))
        => ResultOf(StateHook).code
             = VerifyStateTransition(event, Text("object", "START", <<>>)).code

\* The state the record holds for the guard: START when it holds none.
CurrentState == ReadCurrentState(stateFile).state

\* C13: every block of the state guard names the rejected pair (current,
\* attempted) and all of TransitionTable[current], no more and no fewer; for
\* current START and attempted TEST the guard blocks and reports {INIT, IMPLEMENT}.
C13_BlockNamesPairAndValidNext ==
    /\ (Checking /\ HookRan(StateHook) /\ ResultOf(StateHook).code = 2)
       => /\ ResultOf(StateHook).current = CurrentState
          /\ Payload(event).state # NoKey
             => ResultOf(StateHook).attempted = Payload(event).state
          /\ Range(ResultOf(StateHook).valid_next) = TransitionTable(CurrentState)
          /\ Len(ResultOf(StateHook).valid_next)
                = Cardinality(TransitionTable(CurrentState))
    /\ StateWrite("START", "TEST")
       => /\ ResultOf(StateHook).code = 2
          /\ Range(ResultOf(StateHook).valid_next) = {"INIT", "IMPLEMENT"}

C13_Witness ==
    /\ pc = "decided"
    /\ StateWrite("START", "TEST")
    /\ ResultOf(StateHook) = Block("START", "TEST", <<"INIT", "IMPLEMENT">>)

\* C14: with current state TEST and no evidence record, a write of
\* {"state": "COMPLETE"} is blocked, although TEST -> COMPLETE is in the table.
C14_CompleteNeedsEvidence ==
    (pc = "decided" /\ StateWrite("TEST", "COMPLETE") /\ evidence = "missing")
    => Verdict(evaluated) = 2

(***************************************************************************)
(* Properties of the chain run for an event that sets tested: true.        *)
(***************************************************************************)
EvidenceHook == "verify-tests.py"
GitHook == "require-commit-before-tested.py"
OutcomeHook == "require-outcome-update.py"

\* The event in hand marks a feature of the feature ledger tested = true.
MarksTested ==
    /\ event.stdin = "object"
    /\ event.file_path = FeaturePath
    /\ SetsTestedTrue(Payload(event))

\* No usable evidence that the tests passed: no record, an unreadable record
\* or a record with all_passed = false.
EvidenceUnmet == evidence \in {"missing", "unreadable", "failed"}

DirtyTree == tree.git = "ok" /\ tree.paths > 0

PendingInLedger == collection.exists /\ ~ledgerCorrupt /\ PendingCount(collection) > 0

\* C4: an event that marks a feature tested = true is blocked if and only if the
\* evidence is missing or failed, the working tree is dirty, or the ledger is
\* present and holds a pending trace.
C4_TestedBlockedIff ==
    (pc = "decided" /\ MarksTested)
    => (Verdict(evaluated) = 2 <=> (EvidenceUnmet \/ DirtyTree \/ PendingInLedger))

\* The guards among the hooks run so far, in the order they ran.
GuardsRun == SelectSeq([i \in 1..Len(evaluated) |-> evaluated[i].hook],
                       LAMBDA h : h \in {EvidenceHook, GitHook, OutcomeHook})

IsPrefix(a, b) == Len(a) <= Len(b) /\ \A i \in 1..Len(a) : a[i] = b[i]

\* C5: the guards run in the order evidence, git hygiene, outcome; a guard that
\* blocks is the last hook run and its block is the verdict; the hooks run one
\* at a time.
C5_GuardsInOrderShortCircuit ==
    /\ [](/\ IsPrefix(GuardsRun, <<EvidenceHook, GitHook, OutcomeHook>>)
          /\ \A i \in 1..Len(evaluated) :
                evaluated[i].result.code = 2
                => /\ i = Len(evaluated)
                   /\ pc \in {"decided", "idle"}
                   /\ Verdict(evaluated) = 2)
    /\ [][Len(evaluated') <= Len(evaluated) + 1]_vars

\* The git-hygiene guard blocked after the evidence guard let the event pass;
\* the outcome guard did not run.
C5_Witness ==
    /\ pc = "decided"
    /\ MarksTested
    /\ GuardsRun = <<EvidenceHook, GitHook>>
    /\ ResultOf(EvidenceHook).code = 0
    /\ ResultOf(GitHook).code = 2
    /\ PendingInLedger

\* The i-th line of the output of `git status --porcelain`.
StatusPath(i) == "?? file" \o ToString(i)

\* The offending paths a message names, out of n.
PathsListed(message, n) ==
    {i \in 1..n : \E j \in 1..Len(message) : message[j] = StatusPath(i)}

\* The event in hand makes the git-hygiene hook ask git.
TriggersGitHook ==
    /\ Checking
    /\ HookRan(GitHook)
    /\ event.stdin = "object"
    /\ HasFeatureList(event.file_path)
    /\ HasStatusTested(event.content)

\* C15: for an event that triggers the git-hygiene guard the verdict is block
\* exactly when the status reports n >= 1 paths, and the block lists the first
\* min(5, n) of them; when git is missing, errors or times out it is allow.
C15_GitBlockListsPaths ==
    TriggersGitHook
    => /\ ResultOf(GitHook).code = 2 <=> DirtyTree
       /\ ResultOf(GitHook).code = 2
          => PathsListed(BlockedMessage, tree.paths) = 1..Min(5, tree.paths)
       /\ tree.git # "ok" => ResultOf(GitHook).code = 0

\* No hook ahead of the outcome hook blocked the event.
ReachesOutcomeHook ==
    \A i \in 1..Len(evaluated) :
        evaluated[i].hook # OutcomeHook => evaluated[i].result.code # 2

\* C16: on a tested = true event the outcome guard allows when there is no
\* ledger and when the ledger cannot be parsed; otherwise it blocks exactly when
\* the number n of pending traces is greater than 0, and the block reports n.
C16_OutcomeGuard ==
    (pc = "decided" /\ MarksTested /\ ReachesOutcomeHook)
    => /\ HookRan(OutcomeHook)
       /\ ~collection.exists => ResultOf(OutcomeHook).code = 0
       /\ ledgerCorrupt => ResultOf(OutcomeHook).code = 0
       /\ (collection.exists /\ ~ledgerCorrupt)
          => /\ ResultOf(OutcomeHook).code = 2 <=> PendingCount(collection) > 0
             /\ ResultOf(OutcomeHook).code = 2
                => ResultOf(OutcomeHook).attempted = ToString(PendingCount(collection))

\* A ledger with one pending and one resolved trace: blocked, reporting 1.
C16_Witness ==
    /\ pc = "decided"
    /\ MarksTested
    /\ Cardinality(DOMAIN collection.records) = 2
    /\ HookRan(OutcomeHook)
    /\ ResultOf(OutcomeHook).code = 2
    /\ ResultOf(OutcomeHook).attempted = "1"

\* C17: the post-write step never answers block (2), whatever the event is, and
\* it leaves the file the write changed as the write left it.
C17_PostStepNeverVetoes ==
    /\ [](postResult.code # 2)
    /\ [][pc = "post" => (stateFile' = stateFile /\ featureFile' = featureFile)]_vars

\* A payload the step cannot parse was written and is still there after it.
C17_Witness ==
    /\ pc = "idle"
    /\ postResult.why = "payload-unparseable"
    /\ event.tool_name = "Write"
    /\ featureFile = event.content

\* The write put a feature into the ledger that was not there before.
NewFeatures(before, after) ==
    {i \in 1..Len(after.features) :
        /\ after.form = "object"
        /\ after.features[i].id # ""
        /\ \A j \in 1..Len(before.features) : before.features[j].id # after.features[i].id}

TraceOfFeature(title) == "Feature created: " \o title

\* C18: after a write that adds a new feature with title T, and a post-write
\* step that did not fail, the trace ledger holds a trace with decision
\* "Feature created: T", category feature and outcome pending; a write that
\* adds no feature creates no trace.
C18_NewFeatureIsTraced ==
    /\ []((/\ pc = "idle"
           /\ postResult # NoResult
           /\ postResult.code = 0
           /\ event.file_path = FeaturePath)
          => \A i \in NewFeatures(priorLedger, featureFile) :
                \E id \in DOMAIN collection.records :
                    /\ collection.records[id].decision
                          = TraceOfFeature(featureFile.features[i].title)
                    /\ collection.records[id].category = "feature"
                    /\ collection.records[id].outcome = "pending")
    /\ [][(pc = "post" /\ NewFeatures(priorLedger, featureFile) = {})
            => collection' = collection]_vars

(***************************************************************************)
(* Properties of the trace store.                                          *)
(***************************************************************************)
Stored == DOMAIN collection.records

\* C6: no stored trace is ever removed, and the only field of a stored trace
\* that changes is outcome, from pending to success or to failure.
C6_AppendOnly ==
    [][\A id \in Stored :
          /\ id \in DOMAIN collection'.records
          /\ [collection'.records[id] EXCEPT !.outcome = collection.records[id].outcome]
                = collection.records[id]
          /\ collection'.records[id].outcome # collection.records[id].outcome
             => /\ collection.records[id].outcome = "pending"
                /\ collection'.records[id].outcome \in {"success", "failure"}]_vars

\* A trace was resolved, and the ledger holds another one besides.
C6_Witness ==
    /\ call.op = "update"
    /\ Cardinality(Stored) = 2
    /\ collection.records[call.id].outcome \in {"success", "failure"}

\* C7: every stored embedding has length exactly D; a Store whose provider
\* returns a vector of another length appends no record.
C7_EmbeddingLengthIsD ==
    \A id \in Stored : collection.records[id].embedding.len = EMBEDDING_DIM

\* C8: Init on a collection that exists leaves the records and the collection
\* metadata as they are.
C8_InitLeavesCollectionUnchanged ==
    [][(call'.op = "init" /\ collection.exists) => collection' = collection]_vars

\* A Query without filters of the text the Store before it stored, which returned.
QueryAfterStore ==
    /\ call.op = "store" /\ call.exit = 0
    /\ call'.op = "query" /\ call'.exit = 0
    /\ call'.text = call.text
    /\ call'.where = Where(NoFilter, NoFilter)

ReturnsStored ==
    \E i \in 1..Len(call'.results) :
        call'.results[i].id = call.id /\ call'.results[i].similarity > 0

SuppliesKey(source) == source # "" /\ source # Malformed

\* The key the priority environment, project config, global config gives.
ResolvedKey(cred) ==
    IF cred.env # "" THEN cred.env
    ELSE IF SuppliesKey(cred.project) THEN cred.project
    ELSE IF SuppliesKey(cred.global) THEN cred.global
    ELSE ""

\* C19: Store and Query use the environment variable's key when it is set and
\* not empty, else the project config's key when present, else the global
\* config's key when present; when none supplies a key the call ends with a
\* non-zero exit, makes no embedding request and changes no stored record.
C19_CredentialPriority ==
    [][call'.op \in {"store", "query"}
         => IF ResolvedKey(creds) = ""
            THEN /\ call'.exit # 0
                 /\ call'.requests = 0
                 /\ collection' = collection
            ELSE call'.key = ResolvedKey(creds)]_vars

\* C20: a Store or Query whose embedding request fails ends with a non-zero
\* exit after exactly one request, and the collection is as it was before.
C20_FailedRequestAborts ==
    [][(call'.op \in {"store", "query"} /\ call'.answer = "error")
         => /\ call'.exit # 0
            /\ call'.requests = 1
            /\ collection' = collection]_vars

\* A Store failed at the provider while the collection held a trace.
C20_Witness ==
    /\ call.op = "store"
    /\ call.answer = "error"
    /\ call.exit = 1
    /\ call.requests = 1
    /\ Cardinality(Stored) = 1

(***************************************************************************)
(* Further properties of the hooks.                                        *)
(***************************************************************************)
\* The transitions the header of verify-state-transition.py lists as blocked,
\* but for TEST -> COMPLETE, which it qualifies.
ListedInvalid ==
    {<<"START", "IMPLEMENT">>, <<"FIX_BROKEN", "IMPLEMENT">>, <<"INIT", "COMPLETE">>,
     <<"IMPLEMENT", "COMPLETE">>}

\* C24: the state hook blocks (verdict 2) each transition its header lists as
\* invalid: START -> IMPLEMENT, FIX_BROKEN -> IMPLEMENT, INIT -> COMPLETE and
\* IMPLEMENT -> COMPLETE.
C24_HeaderTransitionsBlocked ==
    \A pair \in ListedInvalid :
        StateWrite(pair[1], pair[2]) => ResultOf(StateHook).code = 2

\* C25: a trace collection that exists records the dimensionality D in its
\* metadata, whichever of Init, Store and Query created it.
C25_MetadataRecordsD ==
    collection.exists => collection.metadata = EMBEDDING_DIM

\* C26: the git-hygiene guard acts on every event on the feature ledger whose
\* payload sets tested: true, a Write's content or an Edit's new_string alike:
\* with a dirty working tree no such event is allowed.
C26_DirtyTreeNeverTested ==
    (pc = "decided" /\ MarksTested /\ DirtyTree)
    => /\ HookRan(GitHook) => ResultOf(GitHook).code = 2
       /\ Verdict(evaluated) = 2

\* The hooks of the chain whose scripts are among the sources.
SourceHooks == {StateHook, GitHook}

\* The state hook reads the record: the event is on it and its payload is an object.
ReadsRecord ==
    /\ event.stdin = "object"
    /\ HasStateJson(event.file_path)
    /\ Payload(event).form \in {"object", "empty"}

\* C27: the state hook, the git-hygiene hook and the feature-to-trace hook end
\* with verdict 0 when the event is not valid JSON or a record they read is not
\* valid JSON; and the git-hygiene guard allows an event that sets tested: true
\* without a clean status only when it cannot parse the payload or git is
\* unavailable.
C27_FailOpenOnParseErrors ==
    /\ \A i \in 1..Len(evaluated) :
          (/\ evaluated[i].hook \in SourceHooks
           /\ \/ event.stdin = "notjson"
              \/ evaluated[i].hook = StateHook /\ Checking /\ ReadsRecord
                   /\ stateFile.form = "garbage")
          => evaluated[i].result.code = 0
    /\ (postResult # NoResult /\ event.stdin = "notjson") => postResult.code = 0
    /\ (Checking /\ MarksTested /\ HookRan(GitHook) /\ ResultOf(GitHook).code = 0)
       => \/ tree = [git |-> "ok", paths |-> 0]
          \/ tree.git # "ok"
          \/ Payload(event).form \in {"fragment", "garbage"}

StateOf(file) == IF HoldsState(file) THEN file.state ELSE "START"

\* C29: along the state writes the state guard allows, from a project without a
\* state record: COMPLETE is entered only from TEST and TEST only from
\* IMPLEMENT, FIX_BROKEN is never entered, and COMPLETE never changes again.
C29_LifecycleOrder ==
    [][(/\ StateOf(stateFile') # StateOf(stateFile)
        /\ HookRan(StateHook)
        /\ ResultOf(StateHook).code = 0)
         => (/\ StateOf(stateFile') = "COMPLETE" => StateOf(stateFile) = "TEST"
             /\ StateOf(stateFile') = "TEST" => StateOf(stateFile) = "IMPLEMENT"
             /\ StateOf(stateFile') # "FIX_BROKEN"
             /\ StateOf(stateFile) # "COMPLETE")]_vars

\* C30: a Store that returns a trace id has added exactly one record, under an
\* id no record stored before it has; also when the text and the timestamp are
\* those of an earlier Store.
C30_StoreAddsOneRecord ==
    [][(call'.op = "store" /\ call'.exit = 0)
         => (/\ call'.id \notin DOMAIN collection.records
             /\ DOMAIN collection'.records = DOMAIN collection.records \cup {call'.id})]_vars

(***************************************************************************)
(* Further properties of the trace store.                                  *)
(***************************************************************************)
\* The raw distance of the i-th result of the query in `call`.
ResultDistance(i) ==
    Distance(Embedding(EMBEDDING_DIM, At(call.text, "query")),
             collection.records[call.results[i].id].embedding)

\* A Query that returned.
Answered == call.op = "query" /\ call.exit = 0

\* C21: Query(q, limit = k, category?, outcome?) returns at most k results, each
\* a stored trace that meets every filter given, ranked 1..n without gaps in
\* ascending distance, so that similarity does not grow with the rank; on an
\* empty collection it returns the empty list and does not fail.
C21_QueryResults ==
    /\ Answered
       => /\ Len(call.results) <= call.k
          /\ \A i \in 1..Len(call.results) :
                /\ call.results[i].id \in Stored
                /\ call.results[i].rank = i
                /\ call.where.category # NoFilter
                   => collection.records[call.results[i].id].category = call.where.category
                /\ call.where.outcome # NoFilter
                   => collection.records[call.results[i].id].outcome = call.where.outcome
                /\ call.results[i].category = collection.records[call.results[i].id].category
                /\ call.results[i].outcome = collection.records[call.results[i].id].outcome
          /\ \A i, j \in 1..Len(call.results) :
                i < j => /\ ResultDistance(i) <= ResultDistance(j)
                         /\ call.results[i].similarity >= call.results[j].similarity
    /\ (call.op = "query" /\ call.answer = "vector" /\ Stored = {})
       => (call.exit = 0 /\ call.results = <<>>)

\* C22 as stated: the similarity of a match is 1 / (1 + d) exactly, greater
\* than 0, at most 1, and 1 only for d = 0 (similarities are in thousandths).
C22_SimilarityExact ==
    Answered
    => \A i \in 1..Len(call.results) :
          /\ call.results[i].similarity * (1 + ResultDistance(i)) = 1000
          /\ call.results[i].similarity > 0
          /\ call.results[i].similarity <= 1000
          /\ call.results[i].similarity = 1000 => ResultDistance(i) = 0

Abs(n) == IF n < 0 THEN 0 - n ELSE n

\* C22 amended: the similarity of a match is 1 / (1 + d) rounded to three
\* decimals, between 0 and 1, and 0 for every d of 2000 or more.
C22_SimilarityRounded ==
    Answered
    => \A i \in 1..Len(call.results) :
          /\ 2 * Abs(1000 - call.results[i].similarity * (1 + ResultDistance(i)))
                <= 1 + ResultDistance(i)
          /\ call.results[i].similarity >= 0
          /\ call.results[i].similarity <= 1000
          /\ ResultDistance(i) >= 2000 => call.results[i].similarity = 0

\* A match so far from the query that its similarity is 0.
C22_Witness ==
    /\ Answered
    /\ \E i \in 1..Len(call.results) :
          ResultDistance(i) >= 2000 /\ call.results[i].similarity = 0

(***************************************************************************)
(* Overlapping sessions.                                                   *)
(***************************************************************************)
\* The tool call of session s writes the state record.
SessionWrites(s) == session[s].pc = "allowed" /\ session'[s].pc = "idle"

\* The persisted state changes by a pair that is not in the TransitionTable.
OutsideTable ==
    /\ stateFile'.state # stateFile.state
    /\ stateFile'.state \notin TransitionTable(stateFile.state)

\* C23: guard check and write are not atomic and no lock is held.  The persisted
\* state changes by a pair outside the TransitionTable only through a write
\* that the guards allowed against an earlier read of the record, a read that
\* the write of an overlapping session has since replaced; C23_Witness is the
\* interleaving of the claim.
C23_OutsideTableOnlyByStaleRead ==
    [][\A s \in Sessions :
          (SessionWrites(s) /\ OutsideTable)
            => (/\ session[s].read # stateFile
                /\ stateFile'.state \in
                      TransitionTable(session[s].read.state) \cup {session[s].read.state})]_vars

\* Two sessions were allowed against the same read of TEST; one wrote COMPLETE,
\* then the other wrote IMPLEMENT over it.
C23_Witness ==
    \E a, b \in Sessions :
       /\ a # b
       /\ session[a].wrote /\ session[b].wrote
       /\ session[a].verdict = 0 /\ session[b].verdict = 0
       /\ session[a].read = session[b].read
       /\ session[a].read.state = "TEST"
       /\ session[a].event.content.state = "COMPLETE"
       /\ session[b].event.content.state = "IMPLEMENT"
       /\ session[b].replaced.state = "COMPLETE"
       /\ stateFile.state = "IMPLEMENT"
       /\ "IMPLEMENT" \notin TransitionTable("COMPLETE")

====
